---------------------------- MODULE Spec2Model ----------------------------
(***************************************************************************)
(* tcp-proxy: a TCP forwarding daemon with hot reload.                     *)
(*                                                                         *)
(*   src/src/types.rs  RawConfig, ProxyConfig::from_raw (normalisation),   *)
(*                     ProxyConfig::start_proxy (listener + relays)        *)
(*   src/src/main.rs   main (orchestration loop, rlimit, restart waiter),  *)
(*                     add_rules / remove_rules (control plane)            *)
(*                                                                         *)
(* The specifications share the variables:                                 *)
(*   SpecNorm    from_raw applied to bounded raw-rule lists (pure part)    *)
(*   Spec        the running daemon: the orchestration loop, the restart   *)
(*               waiters, the listeners and the HTTP handlers,             *)
(*               interleaved, with requests served one at a time.  Client  *)
(*               connections (ListenerAccept, RelayDial, RelayCopyEnd)     *)
(*               change only `relays`, which nothing else reads, and are   *)
(*               left out of Spec's next-state relation.                   *)
(*   SpecConn    the daemon with client connections and no request         *)
(*   SpecReload  the daemon with client connections and requests           *)
(*   SpecRace    the daemon with one request per HTTP worker, the workers  *)
(*               running side by side                                      *)
(***************************************************************************)
EXTENDS Integers, Sequences, FiniteSets, TLC

VARIABLES
    \* ---- build ----
    overflow_checks,   \* Cargo profile: TRUE = arithmetic overflow panics (debug)
    \* ---- pure part (SpecNorm) ----
    norm_pc,           \* "input" | "done" | "permuted" | "off"
    raw_config_list,   \* the argument of from_raw
    norm_out,          \* from_raw(raw_config_list)
    permuted_list,     \* a permutation of raw_config_list
    perm_out,          \* from_raw(permuted_list)
    \* ---- daemon (Spec) ----
    store,             \* the config file: [ok |-> BOOLEAN, recs |-> Seq(RawConfig)]
    config_path_set,   \* CONFIG_PATH (OnceLock) initialised
    main_pc,           \* position of the block_on future of main
    exit_reason,       \* why main returned / panicked ("" while alive)
    proxy_config,      \* Vec<ProxyConfig> of the current loop iteration
    soft_limit,        \* RLIMIT_NOFILE soft
    hard_limit,        \* RLIMIT_NOFILE hard
    batch_no,          \* number of batches launched (id of the current one)
    listeners,         \* futures inside join_all of the current batch
    aborted,           \* batches whose AbortHandle::abort() was called
    waiter,            \* per batch: state of the spawned RESTART_PROXY waiter
    wait_queue,        \* Notify: waiters registered, oldest first
    permit,            \* Notify: a stored notify_one permit
    sockets,           \* listening sockets open in the process
    relays,            \* detached ConnectionRelay tasks
    handlers,          \* in-flight HTTP requests (add_rules / remove_rules)
    requests_made      \* number of HTTP requests received so far

norm_vars == <<norm_pc, raw_config_list, norm_out, permuted_list, perm_out>>
main_vars == <<store, config_path_set, main_pc, exit_reason, proxy_config,
               soft_limit, hard_limit, batch_no, listeners, aborted, waiter,
               wait_queue, permit, sockets, relays, handlers, requests_made>>
vars == <<overflow_checks, norm_vars, main_vars>>

---------------------------------------------------------------------------
(* Bounds *)

MaxRaw      == 2   \* longest raw-rule list given to from_raw in SpecNorm
MaxPort     == 3   \* low ports 0..MaxPort of the single-rule inputs
MaxBatches  == 2   \* batches the orchestrator launches
MaxRequests == 1   \* HTTP requests received
MaxRelays   == 2   \* relay tasks alive at once

U16 == 65536

Min(a, b) == IF a <= b THEN a ELSE b

---------------------------------------------------------------------------
(* RawConfig, SourcePortOptions, TargetPortOptions (types.rs 60-104)       *)

Single(p)   == [kind |-> "Single", start |-> p, end |-> p]
Range(s, e) == [kind |-> "Range", start |-> s, end |-> e]

RawConfig(ip, port, target_port) ==
    [ip |-> ip, port |-> port, target_port |-> target_port]

\* ip strings, as character sequences
IpA   == <<"1", "0", ".", "0", ".", "0", ".", "1">>        \* "10.0.0.1"
IpB   == <<"9", ".", "0", ".", "0", ".", "2">>             \* "9.0.0.2"
IpBad == <<"1", "0", ".", "0", ".", "0", "1", ".", "1">>   \* "10.0.01.1"
IpShort == <<"1", ".", "2", ".", "3">>                     \* "1.2.3"

---------------------------------------------------------------------------
(* str::parse::<Ipv4Addr>() (types.rs 126): four decimal octets 0..255     *)
(* separated by '.', no leading zero, nothing else.                        *)

DigitVal(c) ==
    CASE c = "0" -> 0 [] c = "1" -> 1 [] c = "2" -> 2 [] c = "3" -> 3
      [] c = "4" -> 4 [] c = "5" -> 5 [] c = "6" -> 6 [] c = "7" -> 7
      [] c = "8" -> 8 [] c = "9" -> 9 [] OTHER -> -1

RECURSIVE SplitDots(_, _, _)
\* s split at '.', cur the part being read, acc the parts read so far
SplitDots(s, cur, acc) ==
    IF s = <<>> THEN Append(acc, cur)
    ELSE IF Head(s) = "." THEN SplitDots(Tail(s), <<>>, Append(acc, cur))
    ELSE SplitDots(Tail(s), Append(cur, Head(s)), acc)

RECURSIVE DecimalVal(_, _)
DecimalVal(t, acc) ==
    IF t = <<>> THEN acc
    ELSE IF DigitVal(Head(t)) < 0 THEN -1
    ELSE DecimalVal(Tail(t), acc * 10 + DigitVal(Head(t)))

\* mutant: an octet may be written with leading zeros
OctetVal_LeadingZeros(t) ==
    IF Len(t) = 0 \/ Len(t) > 3 THEN -1
    ELSE LET v == DecimalVal(t, 0) IN IF v > 255 THEN -1 ELSE v

OctetVal(t) ==
    IF Len(t) = 0 \/ Len(t) > 3 THEN -1
    ELSE IF Len(t) > 1 /\ Head(t) = "0" THEN -1
    ELSE LET v == DecimalVal(t, 0) IN IF v > 255 THEN -1 ELSE v

ParseIpv4(s) ==
    LET parts == SplitDots(s, <<>>, <<>>) IN
    IF Len(parts) = 4 /\ \A i \in 1..4 : OctetVal(parts[i]) >= 0
    THEN [ok |-> TRUE, ip |-> [i \in 1..4 |-> OctetVal(parts[i])]]
    ELSE [ok |-> FALSE, ip |-> <<0, 0, 0, 0>>]

---------------------------------------------------------------------------
(* SocketAddrV4 and the derived Ord of (SocketAddrV4, SocketAddrV4)        *)

SocketAddrV4(ip, port) == [ip |-> ip, port |-> port]

target_ip == <<0, 0, 0, 0>>

IpLt(a, b) ==
    \E i \in 1..4 : a[i] < b[i] /\ \A j \in 1..(i - 1) : a[j] = b[j]

AddrLt(a, b) == IpLt(a.ip, b.ip) \/ (a.ip = b.ip /\ a.port < b.port)

\* a pair is <<source_addr, target_addr>>
PairLt(x, y) == AddrLt(x[1], y[1]) \/ (x[1] = y[1] /\ AddrLt(x[2], y[2]))

---------------------------------------------------------------------------
(* ProxyConfig::from_raw (types.rs 121-160)                                *)

\* u16 subtraction `a - b`: wraps in a build without overflow checks
WrappingSub16(a, b) == (a - b + U16) % U16

\* number of items of start..=end (RangeInclusive<u16>); empty when end < start
RangeLen(s, e) == IF s <= e THEN e - s + 1 ELSE 0

\* mutant: exclusive ranges start..end
ZipRanges_Exclusive(source_ip, source_start, source_end, target_start, target_end) ==
    LET n == Min(RangeLen(source_start, source_end),
                 RangeLen(target_start, target_end)) - 1
    IN  [i \in 1..n |->
            <<SocketAddrV4(source_ip, source_start + (i - 1)),
              SocketAddrV4(target_ip, target_start + (i - 1))>>]

\* zip(source_start..=source_end, target_start..=target_end).map(..).collect()
ZipRanges(source_ip, source_start, source_end, target_start, target_end) ==
    LET n == Min(RangeLen(source_start, source_end),
                 RangeLen(target_start, target_end))
    IN  [i \in 1..n |->
            <<SocketAddrV4(source_ip, source_start + (i - 1)),
              SocketAddrV4(target_ip, target_start + (i - 1))>>]

\* the warn! of line 134-136 compares the two u16 differences
LengthsDiffer(source_start, source_end, target_start, target_end) ==
    WrappingSub16(source_end, source_start) # WrappingSub16(target_end, target_start)

\* `end - start` overflows (and panics when overflow checks are compiled in)
SubOverflows(source_start, source_end, target_start, target_end) ==
    source_end < source_start \/ target_end < target_start

\* the filter_map closure (types.rs 125-154) on one raw rule:
\* "None", "Some" with the emitted pairs (warn: the warn! was logged), or "Panic"
EmitPairs(raw_config, checks) ==
    LET parsed == ParseIpv4(raw_config.ip)
        p == raw_config.port
        t == raw_config.target_port
    IN  IF ~parsed.ok THEN [tag |-> "None", pairs |-> <<>>, warn |-> FALSE]
        ELSE IF p.kind = "Range" /\ t.kind = "Range" THEN
            IF checks /\ SubOverflows(p.start, p.end, t.start, t.end)
            THEN [tag |-> "Panic", pairs |-> <<>>, warn |-> FALSE]
            ELSE [tag |-> "Some",
                  pairs |-> ZipRanges(parsed.ip, p.start, p.end, t.start, t.end),
                  warn |-> LengthsDiffer(p.start, p.end, t.start, t.end)]
        ELSE IF p.kind = "Single" /\ t.kind = "Single" THEN
            [tag |-> "Some",
             pairs |-> << <<SocketAddrV4(parsed.ip, p.start),
                           SocketAddrV4(target_ip, t.start)>> >>,
             warn |-> FALSE]
        ELSE [tag |-> "None", pairs |-> <<>>, warn |-> FALSE]

RECURSIVE Flatten(_, _)
\* .filter_map(..).flatten(): the emitted pairs of every rule, in input order
Flatten(raw_config_seq, checks) ==
    IF raw_config_seq = <<>> THEN <<>>
    ELSE EmitPairs(Head(raw_config_seq), checks).pairs
            \o Flatten(Tail(raw_config_seq), checks)

\* mutant: a Vec that skips items it already holds, in arrival order
BTreeInsert_Unsorted(sorted, x) ==
    IF \E i \in 1..Len(sorted) : sorted[i] = x THEN sorted ELSE Append(sorted, x)

RECURSIVE BTreeInsert_NoDedup(_, _)
\* mutant: a sorted Vec that keeps equal items
BTreeInsert_NoDedup(sorted, x) ==
    IF sorted = <<>> THEN <<x>>
    ELSE IF PairLt(x, Head(sorted)) THEN <<x>> \o sorted
    ELSE <<Head(sorted)>> \o BTreeInsert_NoDedup(Tail(sorted), x)

RECURSIVE BTreeInsert(_, _)
\* BTreeSet::insert into the ascending sequence of the set's elements
BTreeInsert(sorted, x) ==
    IF sorted = <<>> THEN <<x>>
    ELSE IF x = Head(sorted) THEN sorted
    ELSE IF PairLt(x, Head(sorted)) THEN <<x>> \o sorted
    ELSE <<Head(sorted)>> \o BTreeInsert(Tail(sorted), x)

RECURSIVE CollectBTreeSet(_, _)
\* .collect::<BTreeSet<_>>(): insert the items one by one; into_iter is ascending
CollectBTreeSet(items, acc) ==
    IF items = <<>> THEN acc
    ELSE CollectBTreeSet(Tail(items), BTreeInsert(acc, Head(items)))

\* mutant: the two addresses of the pair taken in the other order
ProxyConfigNew_Swapped(pair) == [source_addr |-> pair[2], target_addr |-> pair[1]]

\* ProxyConfig::new (types.rs 113-118)
ProxyConfigNew(pair) == [source_addr |-> pair[1], target_addr |-> pair[2]]

\* from_raw: [panicked, rules]; rules is the returned Vec<ProxyConfig>
FromRaw(raw_config_seq, checks) ==
    IF \E i \in 1..Len(raw_config_seq) :
            EmitPairs(raw_config_seq[i], checks).tag = "Panic"
    THEN [panicked |-> TRUE, rules |-> <<>>]
    ELSE LET set == CollectBTreeSet(Flatten(raw_config_seq, checks), <<>>)
         IN  [panicked |-> FALSE,
              rules |-> [i \in 1..Len(set) |-> ProxyConfigNew(set[i])]]

---------------------------------------------------------------------------
(* Inputs of the pure part                                                 *)

SmallSourceOpts == {Single(1), Range(1, 2), Range(2, 1)}
SmallTargetOpts == {Single(1), Single(2), Range(1, 1), Range(1, 2)}

\* the rules of the raw-rule lists; a rule whose ip does not parse is left
\* before its ports are looked at, so one port combination stands for all
SmallRaws ==
    {RawConfig(ip, p, t) : ip \in {IpA, IpB}, p \in SmallSourceOpts,
                           t \in SmallTargetOpts}
    \cup {RawConfig(IpBad, Single(1), Single(1)),
          RawConfig(IpShort, Range(1, 2), Range(1, 2))}

SmallLists == UNION {[1..n -> SmallRaws] : n \in 0..MaxRaw}

\* ports of the single-rule inputs: the low ports and the top of u16
WidePorts == (0..MaxPort) \cup {U16 - 2, U16 - 1}
WideOpts ==
    {Single(p) : p \in WidePorts} \cup {Range(s, e) : s \in WidePorts, e \in WidePorts}

\* one rule, any ports; a zip longer than the low ports allow is left out
WideRaws ==
    {r \in {RawConfig(IpA, p, t) : p \in WideOpts, t \in WideOpts} :
        Min(RangeLen(r.port.start, r.port.end),
            RangeLen(r.target_port.start, r.target_port.end)) <= MaxPort + 1}

WideLists == {<<r>> : r \in WideRaws}

IndexPerms(n) == {f \in [1..n -> 1..n] : \A i, j \in 1..n : f[i] = f[j] => i = j}

Permuted(seq, f) == [i \in 1..Len(seq) |-> seq[f[i]]]

Unset == [panicked |-> FALSE, rules |-> <<"unset">>]

---------------------------------------------------------------------------
(* The config file and serde_json (types.rs 68-71, main.rs 106-112)        *)

RuleA == RawConfig(IpA, Single(1), Single(1))
RuleB == RawConfig(IpB, Single(1), Single(2))
RuleR == RawConfig(IpA, Range(1, 2), Range(1, 2))

StoreRaws == {RuleA, RuleB, RuleR}

\* a file that does not exist, is empty or does not parse
Unreadable(size) == [ok |-> FALSE, recs |-> <<>>, size |-> size]

Digits(n) ==
    IF n < 10 THEN 1 ELSE IF n < 100 THEN 2 ELSE IF n < 1000 THEN 3
    ELSE IF n < 10000 THEN 4 ELSE 5

\* bytes of one record in serde_json::to_string_pretty's layout
RecordSize(r) ==
    LET ip_line == 14 + Len(r.ip)
        port_lines ==
            IF r.port.kind = "Single" THEN 14 + Digits(r.port.start)
            ELSE 14 + (17 + Digits(r.port.start)) + (14 + Digits(r.port.end)) + 7
        target_lines ==
            IF r.target_port.kind = "Single" THEN 20 + Digits(r.target_port.start)
            ELSE 21 + (17 + Digits(r.target_port.start))
                    + (14 + Digits(r.target_port.end)) + 6
    IN  4 + ip_line + port_lines + target_lines + 3

RECURSIVE RecordsSize(_)
RecordsSize(recs) ==
    IF recs = <<>> THEN 0
    ELSE RecordSize(Head(recs)) + (IF Len(recs) > 1 THEN 2 ELSE 1)
            + RecordsSize(Tail(recs))

\* bytes of serde_json::to_string_pretty(&recs)
JsonSize(recs) == IF recs = <<>> THEN 2 ELSE 2 + RecordsSize(recs) + 1

Readable(recs) == [ok |-> TRUE, recs |-> recs, size |-> JsonSize(recs)]

---------------------------------------------------------------------------
(* Control plane: add_rules (main.rs 96-119), remove_rules (121-149)       *)

HandlerIds == {"w1", "w2"}     \* HTTP worker threads
SerialWorkers == {"w1"}        \* the worker used when requests come one at a time

\* the requests: POST /add with a JSON array, POST /remove/{ip}
AddRequest(new)     == [kind |-> "add", new |-> new, path |-> <<>>]
RemoveRequest(path) == [kind |-> "remove", new |-> <<>>, path |-> path]

Requests ==
    {AddRequest(<<>>), AddRequest(<<RuleB, RuleA>>),
     RemoveRequest(IpA), RemoveRequest(IpShort)}

StatusOk        == "OK"
StatusNoPath    == "Couldn't get config path."
StatusInvalid   == "Original config is invalid."
StatusGenerate  == "Unable to generate new config."
StatusWrite     == "Unable to write newly generated config."

IdleHandler ==
    [pc |-> "idle", kind |-> "none", new |-> <<>>, path |-> <<>>,
     orig |-> <<>>, cfg |-> <<>>, status |-> "",
     wrote |-> FALSE, fired |-> FALSE, failed |-> "none"]

Active(h) == handlers[h].pc \notin {"idle", "done"}

\* the handler returns `status` to the request; its locals are dropped
Returned(r, status, failed) ==
    [IdleHandler EXCEPT !.pc = "done", !.status = status, !.failed = failed,
                        !.kind = r.kind, !.new = r.new, !.path = r.path,
                        !.wrote = r.wrote, !.fired = r.fired]

\* mutant: the new records first
Concat_NewFirst(original_raw_config, new_raw_config) ==
    new_raw_config \o original_raw_config

\* [original_raw_config, new_raw_config].concat() (main.rs 107)
Concat(original_raw_config, new_raw_config) ==
    original_raw_config \o new_raw_config

\* original_raw_config.iter().position(|c| c.ip == *path) (main.rs 131-133); 0: None
Position(recs, path) ==
    IF \E i \in 1..Len(recs) : recs[i].ip = path
    THEN CHOOSE i \in 1..Len(recs) :
            recs[i].ip = path /\ \A j \in 1..(i - 1) : recs[j].ip # path
    ELSE 0

\* Vec::remove(i)
RemoveAt(recs, i) == SubSeq(recs, 1, i - 1) \o SubSeq(recs, i + 1, Len(recs))

\* mutant: `if let` for `while let`: only the first match is removed
RemoveLoop_Once(recs, path) ==
    IF Position(recs, path) = 0 THEN recs
    ELSE RemoveAt(recs, Position(recs, path))

RECURSIVE RemoveLoop(_, _)
\* while let Some(i) = position(..) { remove(i) } (main.rs 131-136)
RemoveLoop(recs, path) ==
    IF Position(recs, path) = 0 THEN recs
    ELSE RemoveLoop(RemoveAt(recs, Position(recs, path)), path)

\* Notify::notify_one (main.rs 116, 146): wake the oldest registered waiter,
\* or store one permit when nobody waits
NotifyOne ==
    /\ IF wait_queue # <<>>
       THEN /\ waiter' = [waiter EXCEPT ![Head(wait_queue)] = "notified"]
            /\ wait_queue' = Tail(wait_queue)
            /\ UNCHANGED permit
       ELSE /\ permit' = TRUE
            /\ UNCHANGED <<waiter, wait_queue>>

Alive == main_pc # "exited"

\* a request arrives at worker h; CONFIG_PATH.get() (main.rs 98-100, 123-125)
HandlerBegin(h) ==
    /\ Alive
    /\ ~Active(h)
    /\ requests_made < MaxRequests
    /\ requests_made' = requests_made + 1
    /\ \E q \in Requests :
         LET req == [IdleHandler EXCEPT !.kind = q.kind, !.new = q.new,
                                        !.path = q.path]
         IN  handlers' = [handlers EXCEPT ![h] =
                IF config_path_set
                THEN [req EXCEPT !.pc = "read"]
                ELSE Returned(req, StatusNoPath, "path")]
    /\ UNCHANGED <<overflow_checks, norm_vars, sockets,
                   store, config_path_set, main_pc, exit_reason, proxy_config,
                   soft_limit, hard_limit, batch_no, listeners, aborted, waiter,
                   wait_queue, permit, relays>>

\* a request arrives at worker h, which has served none yet, while the other
\* workers may be serving theirs (HttpServer::new(..).run(), main.rs 45-49)
HandlerBeginConcurrent(h) ==
    /\ Alive
    /\ handlers[h].pc = "idle"
    /\ requests_made' = requests_made + 1
    /\ \E q \in Requests :
         LET req == [IdleHandler EXCEPT !.kind = q.kind, !.new = q.new,
                                        !.path = q.path]
         IN  handlers' = [handlers EXCEPT ![h] =
                IF config_path_set
                THEN [req EXCEPT !.pc = "read"]
                ELSE Returned(req, StatusNoPath, "path")]
    /\ UNCHANGED <<overflow_checks, norm_vars, sockets,
                   store, config_path_set, main_pc, exit_reason, proxy_config,
                   soft_limit, hard_limit, batch_no, listeners, aborted, waiter,
                   wait_queue, permit, relays>>

\* the new file content computed from what was read
NewConfig(kind, original_raw_config, new, path) ==
    IF kind = "add" THEN Concat(original_raw_config, new)
    ELSE RemoveLoop(original_raw_config, path)

\* read_from_path, the edit, to_string_pretty (main.rs 102-110, 127-140)
HandlerRead(h) ==
    /\ Alive
    /\ handlers[h].pc = "read"
    /\ LET r == handlers[h] IN
       IF ~store.ok
       THEN handlers' = [handlers EXCEPT ![h] = Returned(r, StatusInvalid, "read")]
       ELSE \E serialized \in BOOLEAN :
            handlers' = [handlers EXCEPT ![h] =
                IF serialized
                THEN [r EXCEPT !.pc = "create", !.orig = store.recs,
                               !.cfg = NewConfig(r.kind, store.recs, r.new, r.path)]
                ELSE Returned(r, StatusGenerate, "serialize")]
    /\ UNCHANGED <<overflow_checks, norm_vars, sockets,
                   store, config_path_set, main_pc, exit_reason, proxy_config,
                   soft_limit, hard_limit, batch_no, listeners, aborted, waiter,
                   wait_queue, permit, relays, requests_made>>

\* std::fs::write, first half: File::create truncates the file (main.rs 112, 142)
HandlerCreate(h) ==
    /\ Alive
    /\ handlers[h].pc = "create"
    /\ \E created \in BOOLEAN :
         IF created
         THEN /\ store' = Unreadable(0)
              /\ handlers' = [handlers EXCEPT ![h].pc = "write_all"]
         ELSE /\ UNCHANGED store
              /\ handlers' = [handlers EXCEPT ![h] =
                                  Returned(handlers[h], StatusWrite, "write")]
    /\ UNCHANGED <<overflow_checks, norm_vars, sockets,
                   config_path_set, main_pc, exit_reason, proxy_config,
                   soft_limit, hard_limit, batch_no, listeners, aborted, waiter,
                   wait_queue, permit, relays, requests_made>>

\* mutant: the content is added to what another writer has put in the file
Overwrite_Merging(file, recs) ==
    IF file.ok THEN Readable(file.recs \o recs) ELSE Readable(recs)

\* the file after `bytes` of content are written at offset 0 of a file that
\* another writer may have filled since this writer truncated it
Overwrite(file, recs) ==
    IF JsonSize(recs) >= file.size THEN Readable(recs) ELSE Unreadable(file.size)

\* mutant: the signal is fired although the write failed
WriteAllFailed_StillNotifies(h) ==
    /\ UNCHANGED store
    /\ handlers' = [handlers EXCEPT ![h] =
            Returned([handlers[h] EXCEPT !.fired = TRUE], StatusWrite, "write")]
    /\ NotifyOne

\* write_all returned Err: the let-else returns the status (main.rs 112-114, 142-144)
WriteAllFailed(h) ==
    /\ UNCHANGED store
    /\ handlers' = [handlers EXCEPT ![h] = Returned(handlers[h], StatusWrite, "write")]
    /\ UNCHANGED <<waiter, wait_queue, permit>>

\* std::fs::write, second half: write_all (main.rs 112, 142)
HandlerWriteAll(h) ==
    /\ Alive
    /\ handlers[h].pc = "write_all"
    /\ \E written \in BOOLEAN :
         IF written
         THEN /\ store' = Overwrite(store, handlers[h].cfg)
              /\ handlers' = [handlers EXCEPT ![h].pc = "notify", ![h].wrote = TRUE]
              /\ UNCHANGED <<waiter, wait_queue, permit>>
         ELSE WriteAllFailed(h)
    /\ UNCHANGED <<overflow_checks, norm_vars, sockets,
                   config_path_set, main_pc, exit_reason, proxy_config,
                   soft_limit, hard_limit, batch_no, listeners, aborted,
                   relays, requests_made>>

\* RESTART_PROXY.notify_one(); String::from("OK") (main.rs 116-118, 146-148)
HandlerNotify(h) ==
    /\ Alive
    /\ handlers[h].pc = "notify"
    /\ NotifyOne
    /\ handlers' = [handlers EXCEPT ![h] =
            Returned([handlers[h] EXCEPT !.fired = TRUE], StatusOk, "none")]
    /\ UNCHANGED <<overflow_checks, norm_vars, sockets,
                   store, config_path_set, main_pc, exit_reason, proxy_config,
                   soft_limit, hard_limit, batch_no, listeners, aborted,
                   relays, requests_made>>

---------------------------------------------------------------------------
(* The orchestration loop of main (main.rs 58-93)                          *)

BatchIds == 1..MaxBatches

\* RLIMIT_NOFILE at process start.  Rule counts are small here, so the soft
\* limit is small too: enough for one rule, too low for two or more
StartLimits == {[soft |-> 2, hard |-> 1024]}

\* files found at process start
StartStores ==
    {Unreadable(0), Readable(<<>>), Readable(<<RuleR, RuleB>>),
     Readable(<<RuleA, RuleB, RuleA>>)}

\* main returns the error (or panics): the process ends
Exit(reason) ==
    /\ main_pc' = "exited"
    /\ exit_reason' = reason

\* CONFIG_PATH.get_or_init (main.rs 59)
MainInitPath ==
    /\ main_pc = "init"
    /\ config_path_set' = TRUE
    /\ main_pc' = "load"
    /\ UNCHANGED <<overflow_checks, norm_vars, sockets,
                   store, exit_reason, proxy_config, soft_limit, hard_limit,
                   batch_no, listeners, aborted, waiter, wait_queue, permit,
                   relays, handlers, requests_made>>

\* ProxyConfig::from_raw(&RawConfig::read_from_path(config_path)?) (main.rs 61-63)
MainLoad ==
    /\ main_pc = "load"
    /\ batch_no < MaxBatches
    /\ IF ~store.ok
       THEN Exit("store") /\ UNCHANGED proxy_config
       ELSE LET r == FromRaw(store.recs, overflow_checks) IN
            IF r.panicked
            THEN Exit("panic") /\ UNCHANGED proxy_config
            ELSE /\ proxy_config' = r.rules
                 /\ main_pc' = "limit"
                 /\ UNCHANGED exit_reason
    /\ UNCHANGED <<overflow_checks, norm_vars, sockets,
                   store, config_path_set, soft_limit, hard_limit,
                   batch_no, listeners, aborted, waiter, wait_queue, permit,
                   relays, handlers, requests_made>>

\* (proxy_config.len() / 10 * 20 + 1) as u64 (main.rs 65)
DesiredLimit(len) == (len \div 10) * 20 + 1

\* the guard of the first match arm (main.rs 68)
LimitTooLow(soft, len) == soft <= len

\* getrlimit / setrlimit (main.rs 65-75); the results of the two system calls
\* are the environment's: setrlimit cannot succeed above the hard limit
MainLimit ==
    /\ main_pc = "limit"
    /\ \E got \in BOOLEAN, set \in BOOLEAN :
         LET desired_limit == DesiredLimit(Len(proxy_config)) IN
         IF got /\ LimitTooLow(soft_limit, Len(proxy_config))
         THEN IF set /\ desired_limit <= hard_limit
              THEN /\ soft_limit' = desired_limit
                   /\ main_pc' = "launch"
                   /\ UNCHANGED exit_reason
              ELSE Exit("setrlimit") /\ UNCHANGED soft_limit
         ELSE /\ main_pc' = "launch"
              /\ UNCHANGED <<soft_limit, exit_reason>>
    /\ UNCHANGED <<overflow_checks, norm_vars, sockets,
                   store, config_path_set, proxy_config, hard_limit,
                   batch_no, listeners, aborted, waiter, wait_queue, permit,
                   relays, handlers, requests_made>>

\* abortable(join_all(..start_proxy())), tokio::spawn of the waiter (main.rs 77-89)
MainLaunch ==
    /\ main_pc = "launch"
    /\ batch_no' = batch_no + 1
    /\ listeners' = [i \in 1..Len(proxy_config) |->
                        [config |-> proxy_config[i], st |-> "new"]]
    /\ waiter' = [waiter EXCEPT ![batch_no + 1] = "spawned"]
    /\ main_pc' = "await"
    /\ UNCHANGED <<overflow_checks, norm_vars, sockets,
                   store, config_path_set, exit_reason, proxy_config, soft_limit,
                   hard_limit, aborted, wait_queue, permit, relays, handlers,
                   requests_made>>

Finished(l) == l.st \in {"bind_failed", "accept_ended"}

\* mutant: try_join_all, ready at the first Err
JoinAllReady_FailFast ==
    \/ \E i \in 1..Len(listeners) : listeners[i].st = "bind_failed"
    \/ \A i \in 1..Len(listeners) : Finished(listeners[i])

\* join_all is ready: every start_proxy future has returned
JoinAllReady == \A i \in 1..Len(listeners) : Finished(listeners[i])

\* Abortable::poll sees the abort flag before or after it polls join_all, and
\* one poll of join_all polls every listener
AbortSeen ==
    /\ batch_no \in aborted
    /\ \/ \A i \in 1..Len(listeners) : listeners[i].st = "new"
       \/ \A i \in 1..Len(listeners) : listeners[i].st # "new"

\* mutant: the batch's futures outlive the await (as if leaked or spawned)
DropBatch_KeepListening(socks, b) == socks

\* the awaited Abortable<JoinAll<..>> is dropped when the await expression
\* ends: every TcpListener a start_proxy future of batch b still owns is
\* closed (main.rs 91)
DropBatch(socks, b) == {s \in socks : s.batch # b}

\* task.await.ok() returns; the batch's futures (and sockets) are dropped and
\* the loop goes round (main.rs 91-92)
MainBatchEnd ==
    /\ main_pc = "await"
    /\ JoinAllReady \/ AbortSeen
    /\ listeners' = <<>>
    /\ sockets' = DropBatch(sockets, batch_no)
    /\ main_pc' = "load"
    /\ UNCHANGED <<overflow_checks, norm_vars,
                   store, config_path_set, exit_reason, proxy_config, soft_limit,
                   hard_limit, batch_no, aborted, waiter, wait_queue, permit,
                   relays, handlers, requests_made>>

---------------------------------------------------------------------------
(* The waiter task of a batch (main.rs 85-89)                              *)

\* first poll of RESTART_PROXY.notified(): take the stored permit and go on to
\* handle.abort(), or register as a waiter
WaiterPoll(b) ==
    /\ Alive
    /\ waiter[b] = "spawned"
    /\ IF permit
       THEN /\ permit' = FALSE
            /\ waiter' = [waiter EXCEPT ![b] = "done"]
            /\ aborted' = aborted \cup {b}
            /\ UNCHANGED wait_queue
       ELSE /\ waiter' = [waiter EXCEPT ![b] = "waiting"]
            /\ wait_queue' = Append(wait_queue, b)
            /\ UNCHANGED <<permit, aborted>>
    /\ UNCHANGED <<overflow_checks, norm_vars, sockets,
                   store, config_path_set, main_pc, exit_reason, proxy_config,
                   soft_limit, hard_limit, batch_no, listeners, relays, handlers,
                   requests_made>>

\* the notified waiter runs: handle.abort() (main.rs 87-88)
WaiterAbort(b) ==
    /\ Alive
    /\ waiter[b] = "notified"
    /\ waiter' = [waiter EXCEPT ![b] = "done"]
    /\ aborted' = aborted \cup {b}
    /\ UNCHANGED <<overflow_checks, norm_vars, sockets,
                   store, config_path_set, main_pc, exit_reason, proxy_config,
                   soft_limit, hard_limit, batch_no, listeners, wait_queue, permit,
                   relays, handlers, requests_made>>

---------------------------------------------------------------------------
(* ProxyConfig::start_proxy (types.rs 162-186)                             *)

\* a listening socket: its local address and the start_proxy future that owns it
ListeningSocket(addr, b, i) == [addr |-> addr, batch |-> b, owner |-> i]

\* listen addresses held by this process's listening sockets
BoundAddrs == {s.addr : s \in sockets}

\* join_all polls its futures in order: listener i binds after the ones before it
NextToBind(i) ==
    /\ listeners[i].st = "new"
    /\ \A j \in 1..(i - 1) : listeners[j].st # "new"

\* TcpListener::bind(self.target_addr).await? (types.rs 163): fails when the
\* address is taken by a sibling, or for a reason of the environment
ListenerBind(i) ==
    /\ main_pc = "await"
    /\ NextToBind(i)
    /\ \E bound \in BOOLEAN :
         IF bound /\ listeners[i].config.target_addr \notin BoundAddrs
         THEN /\ listeners' = [listeners EXCEPT ![i].st = "accepting"]
              /\ sockets' = sockets \cup
                    {ListeningSocket(listeners[i].config.target_addr, batch_no, i)}
         ELSE /\ listeners' = [listeners EXCEPT ![i].st = "bind_failed"]
              /\ UNCHANGED sockets
    /\ UNCHANGED <<overflow_checks, norm_vars,
                   store, config_path_set, main_pc, exit_reason, proxy_config,
                   soft_limit, hard_limit, batch_no, aborted, waiter, wait_queue,
                   permit, relays, handlers, requests_made>>

NoAddr == SocketAddrV4(<<>>, 0)

\* a relay task: the batch and rule of the listener that spawned it, the local
\* address of inbound_stream and the address outbound_stream was dialed at
NoRelay == [st |-> "none", batch |-> 0, config |-> <<>>,
            local |-> NoAddr, peer |-> NoAddr]

\* the listening socket of listener i of the running batch
SocketOf(i) == CHOOSE s \in sockets : s.batch = batch_no /\ s.owner = i

RelaySlots == 1..MaxRelays

\* listener.accept().await returns a connection: tokio::spawn of the relay
\* (types.rs 168-169)
ListenerAccept(i) ==
    /\ main_pc = "await"
    /\ listeners[i].st = "accepting"
    /\ \E s \in RelaySlots :
         /\ relays[s].st = "none"
         /\ \A t \in 1..(s - 1) : relays[t].st # "none"
         /\ relays' = [relays EXCEPT ![s] =
                [st |-> "dialing", batch |-> batch_no, config |-> listeners[i].config,
                 local |-> SocketOf(i).addr, peer |-> NoAddr]]
    /\ UNCHANGED <<overflow_checks, norm_vars, sockets,
                   store, config_path_set, main_pc, exit_reason, proxy_config,
                   soft_limit, hard_limit, batch_no, listeners, aborted, waiter,
                   wait_queue, permit, handlers, requests_made>>

\* listener.accept().await returns Err: the while let ends, Ok(()), and the
\* returning future drops its listener (types.rs 168, 185)
ListenerAcceptError(i) ==
    /\ main_pc = "await"
    /\ listeners[i].st = "accepting"
    /\ listeners' = [listeners EXCEPT ![i].st = "accept_ended"]
    /\ sockets' = sockets \ {SocketOf(i)}
    /\ UNCHANGED <<overflow_checks, norm_vars,
                   store, config_path_set, main_pc, exit_reason, proxy_config,
                   soft_limit, hard_limit, batch_no, aborted, waiter, wait_queue,
                   permit, relays, handlers, requests_made>>

\* mutant: the connect is awaited in the accept loop and its error returned
\* by start_proxy
RelayDial_InAcceptLoop(s) ==
    /\ Alive
    /\ relays[s].st = "dialing"
    /\ \E connected \in BOOLEAN :
         IF connected
         THEN /\ relays' = [relays EXCEPT ![s] =
                    [relays[s] EXCEPT !.st = "copying",
                                      !.peer = relays[s].config.source_addr]]
              /\ UNCHANGED <<listeners, sockets>>
         ELSE /\ relays' = [relays EXCEPT ![s] = NoRelay]
              /\ listeners' = [i \in 1..Len(listeners) |->
                    IF /\ listeners[i].config = relays[s].config
                       /\ listeners[i].st = "accepting"
                    THEN [listeners[i] EXCEPT !.st = "accept_ended"]
                    ELSE listeners[i]]
              /\ sockets' = {k \in sockets :
                                ~(k.batch = batch_no /\ k.addr = relays[s].local)}
    /\ UNCHANGED <<overflow_checks, norm_vars,
                   store, config_path_set, main_pc, exit_reason, proxy_config,
                   soft_limit, hard_limit, batch_no, aborted, waiter,
                   wait_queue, permit, handlers, requests_made>>

\* TcpStream::connect(self.source_addr).await? (types.rs 171)
RelayDial(s) ==
    /\ Alive
    /\ relays[s].st = "dialing"
    /\ \E connected \in BOOLEAN :
         relays' = [relays EXCEPT ![s] =
            IF connected
            THEN [relays[s] EXCEPT !.st = "copying",
                                   !.peer = relays[s].config.source_addr]
            ELSE NoRelay]
    /\ UNCHANGED <<overflow_checks, norm_vars, sockets,
                   store, config_path_set, main_pc, exit_reason, proxy_config,
                   soft_limit, hard_limit, batch_no, listeners, aborted, waiter,
                   wait_queue, permit, handlers, requests_made>>

\* copy_bidirectional returns Ok or Err; the task ends (types.rs 172-181)
RelayCopyEnd(s) ==
    /\ Alive
    /\ relays[s].st = "copying"
    /\ relays' = [relays EXCEPT ![s] = NoRelay]
    /\ UNCHANGED <<overflow_checks, norm_vars, sockets,
                   store, config_path_set, main_pc, exit_reason, proxy_config,
                   soft_limit, hard_limit, batch_no, listeners, aborted, waiter,
                   wait_queue, permit, handlers, requests_made>>

---------------------------------------------------------------------------
(* Specifications                                                          *)

NormOff ==
    /\ norm_pc = "off"
    /\ raw_config_list = <<>>
    /\ norm_out = Unset
    /\ permuted_list = <<>>
    /\ perm_out = Unset

MainOff ==
    /\ store = Unreadable(0)
    /\ config_path_set = FALSE
    /\ main_pc = "off"
    /\ exit_reason = ""
    /\ proxy_config = <<>>
    /\ soft_limit = 0
    /\ hard_limit = 0
    /\ batch_no = 0
    /\ listeners = <<>>
    /\ aborted = {}
    /\ waiter = [b \in BatchIds |-> "none"]
    /\ wait_queue = <<>>
    /\ permit = FALSE
    /\ sockets = {}
    /\ relays = [s \in RelaySlots |-> NoRelay]
    /\ handlers = [h \in HandlerIds |-> IdleHandler]
    /\ requests_made = 0

\* the process has started: the HTTP thread is up, block_on begins.  No rule
\* of StoreRaws has end < start, so the build's overflow checks play no part
Init ==
    /\ overflow_checks = FALSE
    /\ NormOff
    /\ store \in StartStores
    /\ config_path_set = FALSE
    /\ main_pc = "init"
    /\ exit_reason = ""
    /\ proxy_config = <<>>
    /\ \E l \in StartLimits : soft_limit = l.soft /\ hard_limit = l.hard
    /\ batch_no = 0
    /\ listeners = <<>>
    /\ aborted = {}
    /\ waiter = [b \in BatchIds |-> "none"]
    /\ wait_queue = <<>>
    /\ permit = FALSE
    /\ sockets = {}
    /\ relays = [s \in RelaySlots |-> NoRelay]
    /\ handlers = [h \in HandlerIds |-> IdleHandler]
    /\ requests_made = 0

Next ==
    \/ MainInitPath
    \/ MainLoad
    \/ MainLimit
    \/ MainLaunch
    \/ MainBatchEnd
    \/ \E b \in BatchIds : WaiterPoll(b)
    \/ \E b \in BatchIds : WaiterAbort(b)
    \/ \E i \in 1..Len(listeners) : ListenerBind(i)
    \/ \E i \in 1..Len(listeners) : ListenerAcceptError(i)
    \/ \E h \in SerialWorkers : HandlerBegin(h)
    \/ \E h \in HandlerIds : HandlerRead(h)
    \/ \E h \in HandlerIds : HandlerCreate(h)
    \/ \E h \in HandlerIds : HandlerWriteAll(h)
    \/ \E h \in HandlerIds : HandlerNotify(h)

Spec == Init /\ [][Next]_vars

\* from_raw on the input list
NormFromRaw ==
    /\ norm_pc = "input"
    /\ norm_out' = FromRaw(raw_config_list, overflow_checks)
    /\ norm_pc' = "done"
    /\ UNCHANGED <<overflow_checks, raw_config_list, permuted_list, perm_out,
                   main_vars>>

\* from_raw on a permutation of the input list
NormFromRawPermuted ==
    /\ norm_pc = "done"
    /\ \E f \in IndexPerms(Len(raw_config_list)) :
         /\ permuted_list' = Permuted(raw_config_list, f)
         /\ perm_out' = FromRaw(Permuted(raw_config_list, f), overflow_checks)
    /\ norm_pc' = "permuted"
    /\ UNCHANGED <<overflow_checks, raw_config_list, norm_out, main_vars>>

InitNorm ==
    /\ overflow_checks \in BOOLEAN
    /\ MainOff
    /\ norm_pc = "input"
    /\ raw_config_list \in SmallLists \cup WideLists
    /\ norm_out = Unset
    /\ permuted_list = <<>>
    /\ perm_out = Unset

NextNorm == NormFromRaw \/ NormFromRawPermuted

SpecNorm == InitNorm /\ [][NextNorm]_vars

\* the daemon with client connections and no control-plane request: the
\* listeners accept, the relays dial and copy; no restart signal is fired, so
\* no waiter gets past its registration
NextConn ==
    \/ MainInitPath
    \/ MainLoad
    \/ MainLimit
    \/ MainLaunch
    \/ MainBatchEnd
    \/ \E b \in BatchIds : WaiterPoll(b)
    \/ \E i \in 1..Len(listeners) : ListenerBind(i)
    \/ \E i \in 1..Len(listeners) : ListenerAccept(i)
    \/ \E i \in 1..Len(listeners) : ListenerAcceptError(i)
    \/ \E s \in RelaySlots : RelayDial(s)
    \/ \E s \in RelaySlots : RelayCopyEnd(s)

\* the process has started on a store of two rules (one of them twice) with
\* a soft limit that needs no raising
InitConn ==
    /\ overflow_checks = FALSE
    /\ NormOff
    /\ store = Readable(<<RuleA, RuleB, RuleA>>)
    /\ config_path_set = FALSE
    /\ main_pc = "init"
    /\ exit_reason = ""
    /\ proxy_config = <<>>
    /\ \E l \in StartLimits : soft_limit = l.hard /\ hard_limit = l.hard
    /\ batch_no = 0
    /\ listeners = <<>>
    /\ aborted = {}
    /\ waiter = [b \in BatchIds |-> "none"]
    /\ wait_queue = <<>>
    /\ permit = FALSE
    /\ sockets = {}
    /\ relays = [s \in RelaySlots |-> NoRelay]
    /\ handlers = [h \in HandlerIds |-> IdleHandler]
    /\ requests_made = 0

SpecConn == InitConn /\ [][NextConn]_vars

\* client connections while the control plane rewrites the store and
\* restarts the batch
NextReload ==
    \/ NextConn
    \/ \E b \in BatchIds : WaiterAbort(b)
    \/ \E h \in SerialWorkers : HandlerBegin(h)
    \/ \E h \in HandlerIds : HandlerRead(h)
    \/ \E h \in HandlerIds : HandlerCreate(h)
    \/ \E h \in HandlerIds : HandlerWriteAll(h)
    \/ \E h \in HandlerIds : HandlerNotify(h)

SpecReload == InitConn /\ [][NextReload]_vars

\* the control plane with one request per worker, the workers running side
\* by side, next to the orchestrator
NextRace ==
    \/ MainInitPath
    \/ MainLoad
    \/ MainLimit
    \/ MainLaunch
    \/ MainBatchEnd
    \/ \E b \in BatchIds : WaiterPoll(b)
    \/ \E b \in BatchIds : WaiterAbort(b)
    \/ \E i \in 1..Len(listeners) : ListenerBind(i)
    \/ \E i \in 1..Len(listeners) : ListenerAcceptError(i)
    \/ \E h \in HandlerIds : HandlerBeginConcurrent(h)
    \/ \E h \in HandlerIds : HandlerRead(h)
    \/ \E h \in HandlerIds : HandlerCreate(h)
    \/ \E h \in HandlerIds : HandlerWriteAll(h)
    \/ \E h \in HandlerIds : HandlerNotify(h)

SpecRace == InitConn /\ [][NextRace]_vars

---------------------------------------------------------------------------
(* Properties of the daemon (Spec)                                         *)

ListenerConfigs == [i \in 1..Len(listeners) |-> listeners[i].config]

\* nothing that is scheduled can run: main awaits a batch that is neither
\* ready nor aborted, every waiter is parked or gone, no request is in flight
Quiescent ==
    /\ main_pc = "await"
    /\ \A i \in 1..Len(listeners) : listeners[i].st # "new"
    /\ \E i \in 1..Len(listeners) : listeners[i].st = "accepting"
    /\ batch_no \notin aborted
    /\ \A b \in BatchIds : waiter[b] \notin {"spawned", "notified"}
    /\ \A h \in HandlerIds : ~Active(h)

\* C1: once a request has answered "OK" (it fired the restart signal) and the
\* orchestrator and the waiters have run as far as they can, the batch that is
\* running was launched from the store as it is now: its listeners are exactly
\* from_raw(store), the batch the signal met having been cancelled
C1_RestartReplacesBatch ==
    (Quiescent /\ \E h \in HandlerIds : handlers[h].status = StatusOk)
        => ListenerConfigs = FromRaw(store.recs, overflow_checks).rules

\* C2: a bind failure changes that listener alone: no sibling changes state, no
\* abort is requested and main keeps awaiting; a listener that accepts goes on
\* accepting until its own accept fails or the batch ends; and the batch ends
\* only when every listener has returned or the batch was aborted
C2_BindFailureIsolated ==
    [][main_pc = "await" =>
        LET same == Len(listeners') = Len(listeners)
            BindFails(i) == /\ same
                            /\ listeners[i].st = "new"
                            /\ listeners'[i].st = "bind_failed"
        IN
        /\ \A i \in 1..Len(listeners) :
              BindFails(i)
              => /\ \A j \in 1..Len(listeners) \ {i} : listeners'[j] = listeners[j]
                 /\ aborted' = aborted
                 /\ main_pc' = "await"
        /\ \A j \in 1..Len(listeners) :
              (listeners[j].st = "accepting" /\ main_pc' = "await")
              => /\ same
                 /\ listeners'[j].st \in {"accepting", "accept_ended"}
                 /\ listeners'[j].st = "accept_ended"
                       => \A k \in 1..Len(listeners) \ {j} : listeners'[k] = listeners[k]
        /\ main_pc' # "await"
              => \/ \A i \in 1..Len(listeners) :
                        listeners[i].st \in {"bind_failed", "accept_ended"}
                 \/ batch_no \in aborted
    ]_vars

\* C2 witness: a listener bound and accepts after an earlier sibling's bind failed
C2_Witness ==
    /\ main_pc = "await"
    /\ \E i, j \in 1..Len(listeners) :
          /\ i < j
          /\ listeners[i].st = "bind_failed"
          /\ listeners[j].st = "accepting"

\* C3: an unreadable or unparseable store ends the process only at startup,
\* before the first batch is launched
C3_StoreErrorFatalOnlyAtStartup ==
    (main_pc = "exited" /\ exit_reason = "store") => batch_no = 0

\* C4: the resource-limit step always goes on to launch the batch, whatever
\* getrlimit and setrlimit return
C4_LimitFailureNonFatal ==
    [][(main_pc = "limit" /\ main_pc' # "limit") => main_pc' = "launch"]_vars

\* the status a handler returns for the step that failed
StatusOfStep(failed) ==
    CASE failed = "path"      -> StatusNoPath
      [] failed = "read"      -> StatusInvalid
      [] failed = "serialize" -> StatusGenerate
      [] failed = "write"     -> StatusWrite
      [] OTHER                -> StatusOk

\* C5: a handler fires the restart signal only after its write has completed;
\* when it has returned, it fired exactly if its status is "OK", and a failed
\* step gives the status of that step, which is not "OK"
C5_ShortCircuit ==
    \A h \in HandlerIds :
        LET r == handlers[h] IN
        /\ r.fired => r.wrote
        /\ r.fired => r.pc = "done"
        /\ r.pc = "done" =>
              /\ r.fired <=> r.status = StatusOk
              /\ r.status = StatusOfStep(r.failed)
              /\ r.failed # "none" => r.status # StatusOk
              /\ r.failed = "none" => r.wrote

\* C5 witness: add_rules or remove_rules returned the write status after the
\* file was truncated, without firing
C5_Witness ==
    \E h \in HandlerIds :
        /\ handlers[h].pc = "done"
        /\ handlers[h].status = StatusWrite
        /\ ~handlers[h].fired
        /\ ~store.ok

\* notify_one took effect in this step
SignalDelivered ==
    IF wait_queue # <<>> THEN waiter'[Head(wait_queue)] = "notified" ELSE permit'

\* the store an add_rules that wrote must have left, and its last step
AddWroteAndFires(h) ==
    LET r == handlers[h] IN
    (r.kind = "add" /\ r.pc = "notify") =>
        /\ store.ok
        /\ store.recs = r.orig \o r.new
        /\ Len(store.recs) = Len(r.orig) + Len(r.new)
        /\ handlers'[h] # r =>
              /\ handlers'[h].status = StatusOk
              /\ SignalDelivered
              /\ store' = store

\* C6: with requests served one at a time, add_rules(new) that has written
\* leaves the store equal to the store it read followed by new, and its next
\* step fires the restart signal and returns "OK"
C6_AddAppends ==
    [][\A h \in HandlerIds : AddWroteAndFires(h)]_vars

\* C6 witness: two records are appended to a store that already holds them
C6_Witness ==
    \E h \in HandlerIds :
        /\ handlers[h].pc = "done"
        /\ handlers[h].status = StatusOk
        /\ store = Readable(<<RuleA, RuleB, RuleA, RuleB, RuleA>>)

\* the records of recs whose ip is not path, in order
Purged(recs, path) ==
    LET Keep(rec) == rec.ip # path IN SelectSeq(recs, Keep)

\* the store a remove_rules that wrote must have left, and its last step
RemoveWroteAndFires(h) ==
    LET r == handlers[h] IN
    (r.kind = "remove" /\ r.pc = "notify") =>
        /\ store.ok
        /\ \A i \in 1..Len(store.recs) : store.recs[i].ip # r.path
        /\ store.recs = Purged(r.orig, r.path)
        /\ handlers'[h] # r =>
              /\ handlers'[h].status = StatusOk
              /\ SignalDelivered
              /\ store' = store

\* C7: with requests served one at a time, remove_rules(ip) that has written
\* leaves the store it read without the records of that ip, the others once
\* each and in order, and its next step fires the restart signal and returns
\* "OK", also when nothing matched
C7_RemovePurges ==
    [][\A h \in HandlerIds : RemoveWroteAndFires(h)]_vars

\* C7 witness: both records of 10.0.0.1 were purged from a store of three
C7_Witness ==
    \E h \in HandlerIds :
        /\ handlers[h].pc = "done"
        /\ handlers[h].status = StatusOk
        /\ store = Readable(<<RuleB>>)

\* C13: a step of the resource-limit stage that changes the soft limit sets
\* it above the rule count and not below what it was, and leaves the hard limit
C13_LimitOnlyRaised ==
    [][(main_pc = "limit" /\ soft_limit' # soft_limit) =>
          /\ soft_limit' > Len(proxy_config)
          /\ soft_limit' >= soft_limit
          /\ hard_limit' = hard_limit]_vars

\* C15: the orchestrator leaves a batch and goes back to reading the store
\* only when the batch was aborted on a restart signal
C15_ReloadOnlyOnSignal ==
    [][(main_pc = "await" /\ main_pc' = "load") => batch_no \in aborted]_vars

\* the batches whose waiter task has not run to its end
LiveWaiters == {b \in BatchIds : waiter[b] \in {"spawned", "waiting", "notified"}}

\* C16: at most one waiter task is alive, and it is the waiter of the batch
\* launched last, so that the signal it consumes aborts that batch
C16_OneWaiterOfRunningBatch ==
    /\ Cardinality(LiveWaiters) <= 1
    /\ \A b \in LiveWaiters : b = batch_no

---------------------------------------------------------------------------
(* Properties of concurrent requests (SpecRace)                            *)

\* the store a call leaves that read `orig`, as the contract of add and
\* remove states it
EditOf(r) ==
    IF r.kind = "add" THEN r.orig \o r.new ELSE Purged(r.orig, r.path)

\* C17: a call that completes its write leaves the store it read with its
\* own edit, whatever another call has written since it read: no lock orders
\* the calls, and the other call's update is gone
C17_WriteFromOwnRead ==
    [][\A h \in HandlerIds :
          (handlers[h].pc = "write_all" /\ handlers'[h].pc = "notify") =>
              /\ store'.ok => store'.recs = EditOf(handlers[h])
              /\ \A g \in HandlerIds \ {h} : handlers'[g] = handlers[g]]_vars

\* C17 witness: two add_rules calls of two records each on a store of three
\* both returned "OK", and the store holds five records
C17_Witness ==
    /\ \A h \in HandlerIds :
          /\ handlers[h].pc = "done"
          /\ handlers[h].status = StatusOk
          /\ handlers[h].kind = "add"
          /\ handlers[h].new = <<RuleB, RuleA>>
    /\ store = Readable(<<RuleA, RuleB, RuleA, RuleB, RuleA>>)

---------------------------------------------------------------------------
(* Properties of from_raw (SpecNorm)                                       *)

\* C8: from_raw of a permutation of the list is from_raw of the list
C8_PermutationInvariant ==
    norm_pc = "permuted" => perm_out = norm_out

\* C8 witness: a list was reordered and yields two or more rules
C8_Witness ==
    /\ norm_pc = "permuted"
    /\ permuted_list # raw_config_list
    /\ Len(perm_out.rules) >= 2
    /\ EmitPairs(raw_config_list[1], overflow_checks).pairs # <<>>
    /\ EmitPairs(raw_config_list[2], overflow_checks).pairs # <<>>

\* an IPv4 address as the number it is compared as
IpNum(ip) == ((ip[1] * 256 + ip[2]) * 256 + ip[3]) * 256 + ip[4]

\* the key of a rule: upstream address, then listen address
RuleKey(rule) ==
    <<IpNum(rule.source_addr.ip), rule.source_addr.port,
      IpNum(rule.target_addr.ip), rule.target_addr.port>>

KeyLt(a, b) ==
    \E i \in 1..4 : a[i] < b[i] /\ \A j \in 1..(i - 1) : a[j] = b[j]

\* C9: the rules from_raw returns are pairwise different and strictly
\* ascending by upstream address, then listen address
C9_SortedNoDuplicates ==
    norm_pc # "input" =>
        /\ \A i, j \in 1..Len(norm_out.rules) :
              i # j => norm_out.rules[i] # norm_out.rules[j]
        /\ \A i \in 1..(Len(norm_out.rules) - 1) :
              KeyLt(RuleKey(norm_out.rules[i]), RuleKey(norm_out.rules[i + 1]))

\* C9 witness: the input emitted a pair twice and two or more rules are returned
C9_Witness ==
    /\ norm_pc = "done"
    /\ ~norm_out.panicked
    /\ Len(norm_out.rules) >= 2
    /\ Len(Flatten(raw_config_list, overflow_checks)) > Len(norm_out.rules)

\* a rule with a valid ip and two ranges, each with start <= end
ProperRanges(raw) ==
    /\ ParseIpv4(raw.ip).ok
    /\ raw.port.kind = "Range" /\ raw.port.start <= raw.port.end
    /\ raw.target_port.kind = "Range"
    /\ raw.target_port.start <= raw.target_port.end

\* the pairs C10 states for such a rule, as ProxyConfigs
ExpectedOfRanges(raw) ==
    LET n == Min(raw.port.end - raw.port.start + 1,
                 raw.target_port.end - raw.target_port.start + 1)
    IN  [k \in 1..n |->
            [source_addr |-> [ip |-> ParseIpv4(raw.ip).ip,
                              port |-> raw.port.start + (k - 1)],
             target_addr |-> [ip |-> <<0, 0, 0, 0>>,
                              port |-> raw.target_port.start + (k - 1)]]]

\* C10: a rule of two proper ranges is not rejected and contributes exactly
\* min(len(port), len(target_port)) rules, the i-th being upstream
\* ip:(s1+i), listen 0.0.0.0:(s2+i); alone in the list, these are the output
C10_RangesZipped ==
    (norm_pc # "input" /\ ~norm_out.panicked) =>
        \A k \in 1..Len(raw_config_list) :
            ProperRanges(raw_config_list[k]) =>
                LET exp == ExpectedOfRanges(raw_config_list[k]) IN
                /\ EmitPairs(raw_config_list[k], overflow_checks).tag = "Some"
                /\ \A i \in 1..Len(exp) :
                      \E j \in 1..Len(norm_out.rules) : norm_out.rules[j] = exp[i]
                /\ Len(raw_config_list) = 1 => norm_out.rules = exp

\* C10 witness: four source ports against two target ports give two rules
C10_Witness ==
    /\ norm_pc = "done"
    /\ raw_config_list = <<RawConfig(IpA, Range(0, 3), Range(2, 3))>>
    /\ Len(norm_out.rules) = 2

\* the ip strings of the inputs that are not IPv4 addresses: an octet with a
\* leading zero, three octets
NotIpv4 == {IpBad, IpShort}

\* a rule C12 calls invalid
InvalidRaw(raw) == raw.ip \in NotIpv4 \/ raw.port.kind # raw.target_port.kind

\* the list without its invalid rules
WithoutInvalid(seq) ==
    LET Valid(raw) == ~InvalidRaw(raw) IN SelectSeq(seq, Valid)

\* C12: an invalid rule (ip not IPv4, or one single and one ranged port)
\* contributes nothing, and from_raw of the list is from_raw of the list
\* without its invalid rules
C12_InvalidDropped ==
    norm_pc # "input" =>
        /\ \A k \in 1..Len(raw_config_list) :
              InvalidRaw(raw_config_list[k]) =>
                  EmitPairs(raw_config_list[k], overflow_checks).tag = "None"
        /\ norm_out = FromRaw(WithoutInvalid(raw_config_list), overflow_checks)
        /\ (\A k \in 1..Len(raw_config_list) : InvalidRaw(raw_config_list[k]))
              => norm_out.rules = <<>> /\ ~norm_out.panicked

\* C12 witness: a rule with a single port and a ranged target port was given
\* next to a valid rule, whose rules are returned
C12_Witness ==
    /\ norm_pc = "done"
    /\ \E i, j \in 1..Len(raw_config_list) :
          /\ raw_config_list[i].ip \notin NotIpv4
          /\ raw_config_list[i].port.kind = "Single"
          /\ raw_config_list[i].target_port.kind = "Range"
          /\ ~InvalidRaw(raw_config_list[j])
          /\ Len(norm_out.rules) >= 1

\* a rule with a valid ip and two ranges, one of them with end < start
ReversedRange(raw) ==
    /\ raw.ip \notin NotIpv4
    /\ raw.port.kind = "Range"
    /\ raw.target_port.kind = "Range"
    /\ raw.port.end < raw.port.start \/ raw.target_port.end < raw.target_port.start

\* the list without such rules
WithoutReversed(seq) ==
    LET Proper(raw) == ~ReversedRange(raw) IN SelectSeq(seq, Proper)

\* C20: from_raw completes on a list that holds a rule with a reversed range;
\* that rule contributes no pair and the rules of the others are returned
C20_TotalOnReversedRanges ==
    (norm_pc # "input"
        /\ \E k \in 1..Len(raw_config_list) : ReversedRange(raw_config_list[k]))
    => /\ ~norm_out.panicked
       /\ norm_out.rules
             = FromRaw(WithoutReversed(raw_config_list), overflow_checks).rules

---------------------------------------------------------------------------
(* Properties of the listeners and relays (SpecConn, SpecReload)           *)

\* the addresses the ip strings of the store rules denote
Ipv4Of(ip) ==
    CASE ip = IpA -> <<10, 0, 0, 1>>
      [] ip = IpB -> <<9, 0, 0, 2>>

\* a raw rule with a valid ip and two single ports
BothSingle(raw) ==
    /\ raw.ip \in {IpA, IpB}
    /\ raw.port.kind = "Single"
    /\ raw.target_port.kind = "Single"

\* the addresses C11 states for such a rule
ListenAddrOf(raw)   == [ip |-> <<0, 0, 0, 0>>, port |-> raw.target_port.start]
UpstreamAddrOf(raw) == [ip |-> Ipv4Of(raw.ip), port |-> raw.port.start]

\* the store can be related to the running batch: no request has touched it
StoreAsLoaded == requests_made = 0 /\ store.ok

\* C11: a raw rule of two single ports yields exactly one rule, listen
\* 0.0.0.0:target_port and upstream ip:port; every listening socket is bound
\* to the listen address of such a rule, and every relay came in on the listen
\* address and dials the upstream address of the same rule
C11_SingleListensOnTargetPort ==
    StoreAsLoaded =>
        /\ main_pc \in {"limit", "launch", "await"} =>
              \A k \in 1..Len(store.recs) :
                  BothSingle(store.recs[k]) =>
                      Cardinality({j \in 1..Len(proxy_config) :
                          /\ proxy_config[j].target_addr = ListenAddrOf(store.recs[k])
                          /\ proxy_config[j].source_addr = UpstreamAddrOf(store.recs[k])})
                        = 1
        /\ \A sock \in sockets :
              \E k \in 1..Len(store.recs) :
                  BothSingle(store.recs[k]) /\ sock.addr = ListenAddrOf(store.recs[k])
        /\ \A s \in RelaySlots :
              relays[s].st # "none" =>
                  \E k \in 1..Len(store.recs) :
                      /\ BothSingle(store.recs[k])
                      /\ relays[s].local = ListenAddrOf(store.recs[k])
                      /\ relays[s].st = "copying"
                            => relays[s].peer = UpstreamAddrOf(store.recs[k])

\* C11 witness: a connection that came in on 0.0.0.0:2 is relayed to 9.0.0.2:1
C11_Witness ==
    \E s \in RelaySlots :
        /\ relays[s].st = "copying"
        /\ relays[s].local = [ip |-> <<0, 0, 0, 0>>, port |-> 2]
        /\ relays[s].peer = [ip |-> <<9, 0, 0, 2>>, port |-> 1]

\* relay s ends in this step
RelayEnds(s) == relays[s].st \in {"dialing", "copying"} /\ relays'[s].st = "none"

\* C19: when a relay ends, on a failed dial or at the end of the copy, its
\* task is gone with its sockets and is not started again, the listeners and
\* their sockets are as they were, and so is every other relay; and a listener
\* that is accepting can accept while relays are alive
C19_RelayFailureIsolated ==
    [][/\ \A s \in RelaySlots :
            RelayEnds(s) =>
                /\ relays'[s] = NoRelay
                /\ \A t \in RelaySlots \ {s} : relays'[t] = relays[t]
                /\ listeners' = listeners
                /\ sockets' = sockets
                /\ main_pc' = main_pc
       /\ \A i \in 1..Len(listeners) :
            (/\ main_pc = "await"
             /\ listeners[i].st = "accepting"
             /\ \E t \in RelaySlots : relays[t].st = "none")
                => ENABLED ListenerAccept(i)]_vars

\* C19 witness: the first relay has ended while a later one copies on, and the
\* listener that spawned them is accepting
C19_Witness ==
    /\ main_pc = "await"
    /\ relays[1].st = "none"
    /\ relays[2].st = "copying"
    /\ relays[2].batch = batch_no
    /\ \E i \in 1..Len(listeners) :
          /\ listeners[i].config = relays[2].config
          /\ listeners[i].st = "accepting"

\* C14: once a batch was aborted on the restart signal and the next batch
\* launched, no relay spawned by a listener of the aborted batch is dialing
\* or copying
C14_AbortCancelsRelays ==
    \A s \in RelaySlots :
        (relays[s].batch \in aborted /\ relays[s].batch < batch_no)
            => relays[s].st \notin {"dialing", "copying"}

====
